---- MODULE Spec2Model ----
(***************************************************************************)
(* A model of the ledger node of src/main.rs: the Blockchain value behind  *)
(* the Mutex, the six request handlers that lock it, the proof-of-work     *)
(* search and the chain validator.                                         *)
(*                                                                         *)
(* Strings are sequences of character codes: 0..9 the decimal digits,      *)
(* 10..15 the hex digits a..f, and the codes below for JSON punctuation.   *)
(* Sha256 is a library function; it is modelled by a small positional      *)
(* digest (Compress) whose value is printed as DigestLen lower-case hex    *)
(* digits, so that hashing stays a deterministic function of the bytes     *)
(* that can collide and that the leading-zero test of valid_proof reads.   *)
(***************************************************************************)
EXTENDS Naturals, Sequences, FiniteSets, TLC

\* ---- bounds of the model ----
MaxChain == 3       \* mine is not issued once the local chain has this many blocks
MaxPool == 2        \* new_transaction is not issued once the pool has this many entries
MaxTime == 1        \* Utc::now() yields an instant in 1..MaxTime
MaxPeerLen == 3     \* a peer serves a chain of at most this many blocks
MaxReported == 4    \* a peer reports the true length of its chain, or MaxReported
MaxReq == 1         \* a register request names at most this many nodes

\* ---- the digest abstraction ----
HashSpace == 3      \* number of distinct digests
HashBase == 2       \* multiplier of the positional digest
DigestLen == 6      \* hex digits printed per digest
Difficulty == 5     \* leading hex digits that must be "0"

Comma == 16
Open == 17
Close == 18

None == "None"

\* obs before any chain was fetched from the last node of a pass
NoObs == [fetched |-> FALSE, len |-> 0, claimed |-> FALSE, linked |-> FALSE, equal |-> FALSE]

VARIABLES
    chain,                  \* Blockchain.chain
    current_transactions,   \* Blockchain.current_transactions
    nodes,                  \* Blockchain.nodes
    poisoned,               \* the Mutex was held by a handler that panicked
    resolving,              \* consensus holds the lock and is inside the loop of resolve_conflicts
    todo,                   \* the nodes resolve_conflicts has still to visit, in iteration order
    submitted,              \* history: the transactions passed to new_transaction since the last new_block
    mines,                  \* history: blocks appended by mine since the chain was built or replaced
    len_before,             \* history: chain.len() when the running or last resolve_conflicts was entered
    obs,                    \* history: facts about the chain fetched from the last node of the pass
    promised,               \* history: the indices new_transaction returned for the transactions in the pool
    best,                   \* history (SpecResolve): the most blocks in a chain fetched in the pass that passed valid_chain
    entry,                  \* history (SpecResolve): the chain when the running or failed resolve_conflicts was entered
    malformed,              \* history: the last request was a register request naming a URI Url::parse rejects
    candidate,              \* the chain handed to valid_chain (validator specification)
    verdict                 \* what valid_chain returned for it: "true" or "false"

vars == <<chain, current_transactions, nodes, poisoned, resolving, todo,
          submitted, mines, len_before, obs, promised, best, entry, malformed,
          candidate, verdict>>

\* ---- strings and digests ----

RECURSIVE Dec(_)
\* format!("{}", n) of an unsigned integer
Dec(n) == IF n < 10 THEN <<n>> ELSE Dec(n \div 10) \o <<n % 10>>

RECURSIVE Compress(_, _)
\* the digest of the first n characters of s
Compress(s, n) ==
    IF n = 0 THEN 1
    ELSE (Compress(s, n - 1) * HashBase + s[n]) % HashSpace

\* format!("{:x}", digest): the digest as DigestLen hex digits
Hex(d) == [i \in 1..DigestLen |-> (d \div (16 ^ (DigestLen - i))) % 16]

\* the digests, spread evenly over the DigestLen-digit numbers
Digest == [d \in 0..(HashSpace - 1) |-> Hex(d * ((16 ^ DigestLen) \div HashSpace))]

Sha256(s) == Digest[Compress(s, Len(s))]

Digests == {Digest[d] : d \in 0..(HashSpace - 1)}

\* ---- transactions and blocks ----

Txs == {[sender |-> "A", recipient |-> "B", amount |-> 5],
        [sender |-> "B", recipient |-> "A", amount |-> 2]}

StrBytes(s) == IF s = "A" THEN <<10>> ELSE <<11>>

TxJson(t) ==
    <<Open>> \o StrBytes(t.sender) \o <<Comma>> \o StrBytes(t.recipient)
             \o <<Comma>> \o Dec(t.amount) \o <<Close>>

RECURSIVE TxsJson(_)
TxsJson(ts) == IF ts = <<>> THEN <<>> ELSE TxJson(Head(ts)) \o TxsJson(Tail(ts))

\* serde_json::to_string(block): the fields in declaration order
BlockJson(b) ==
    Dec(b.index) \o <<Comma>> \o Dec(b.timestamp) \o <<Comma>>
        \o <<Open>> \o TxsJson(b.transactions) \o <<Close>> \o <<Comma>>
        \o Dec(b.proof) \o <<Comma>> \o b.previous_hash

\* Block::new, with the instant Utc::now() returned
Block(index, now, transactions, proof, previous_hash) ==
    [index |-> index, timestamp |-> now, transactions |-> transactions,
     proof |-> proof, previous_hash |-> previous_hash]

\* Block::hash
hash(b) == Sha256(BlockJson(b))

\* ---- proof of work ----

valid_proof(last_proof, proof, last_hash) ==
    LET guess == Dec(last_proof) \o Dec(proof) \o last_hash
        guess_hash == Sha256(guess)
    IN  SubSeq(guess_hash, 1, Difficulty) = [i \in 1..Difficulty |-> 0]

RECURSIVE Search(_, _, _)
Search(last_proof, proof, last_hash) ==
    IF valid_proof(last_proof, proof, last_hash) THEN proof
    ELSE Search(last_proof, proof + 1, last_hash)

\* mutant of proof_of_work: the search starts at 1
proof_of_work_from_one(last_block) == Search(last_block.proof, 1, hash(last_block))

proof_of_work(last_block) == Search(last_block.proof, 0, hash(last_block))

\* ---- chain validation ----

RECURSIVE Walk(_, _, _)
\* the for loop of valid_chain: prev_block advances, prev_block_hash is the
\* binding made before the loop
Walk(prev_block, prev_block_hash, rest) ==
    IF rest = <<>> THEN TRUE
    ELSE LET block == Head(rest)
         IN  IF block.previous_hash # prev_block_hash THEN FALSE
             ELSE IF ~valid_proof(prev_block.proof, block.proof, prev_block_hash) THEN FALSE
             ELSE Walk(block, prev_block_hash, Tail(rest))

\* mutant of valid_chain: the empty chain passes
valid_chain_accepts_empty(c) ==
    IF c = <<>> THEN TRUE
    ELSE Walk(c[1], hash(c[1]), Tail(c))

valid_chain(c) ==
    IF c = <<>> THEN FALSE
    ELSE Walk(c[1], hash(c[1]), Tail(c))

\* the property the claims call an intact (valid, untampered) chain: every block
\* after the first names the hash of its predecessor and proves against it
Linked(c) ==
    \A i \in 2..Len(c) :
        LET h == hash(c[i-1])
        IN  /\ c[i].previous_hash = h
            /\ valid_proof(c[i-1].proof, c[i].proof, h)

\* ---- the ledger ----

Last(s) == s[Len(s)]

\* mutant of new_block: the new block takes the place of the last one
new_block_overwrites(self, proof, prev_hash, now) ==
    LET block == Block(Len(self.chain) + 1, now, self.current_transactions, proof, prev_hash)
    IN  [self EXCEPT !.current_transactions = <<>>,
                     !.chain = IF self.chain = <<>> THEN <<block>>
                               ELSE [self.chain EXCEPT ![Len(self.chain)] = block]]

\* Blockchain::new_block, with the instant Utc::now() returned
new_block(self, proof, prev_hash, now) ==
    LET block == Block(Len(self.chain) + 1, now, self.current_transactions, proof, prev_hash)
    IN  [self EXCEPT !.current_transactions = <<>>,
                     !.chain = Append(self.chain, block)]

\* Blockchain::new
new(now) ==
    LET blockchain == [current_transactions |-> <<>>, chain |-> <<>>, nodes |-> {}]
        prev_hash == Sha256(<<1>>)
    IN  new_block(blockchain, 1, prev_hash, now)

\* mutant of new_transaction: the transaction goes to the front of the pool
new_transaction_prepends(self, t) ==
    [self |-> [self EXCEPT !.current_transactions = <<t>> \o self.current_transactions],
     index |-> IF self.chain # <<>> THEN Last(self.chain).index + 1 ELSE 0]

\* Blockchain::new_transaction: the ledger after the push, and the index returned
new_transaction(self, t) ==
    [self |-> [self EXCEPT !.current_transactions = Append(self.current_transactions, t)],
     index |-> IF self.chain # <<>> THEN Last(self.chain).index + 1 ELSE 0]

\* ---- peer addresses ----

\* request bodies name peers by URI text; a URI is kept as the parts its text
\* spells out: "http://a:80/chain" is scheme http, host a, port 80, path /chain;
\* "mailto:x" has no host; "garbage" has no scheme
Uri(scheme, host, port, path) ==
    [scheme |-> scheme, host |-> host, port |-> port, path |-> path]

Uris == {Uri("http", "a", "80", ""),
         Uri("http", "a", "80", "/chain"),
         Uri("https", "a", "80", ""),
         Uri("mailto", None, None, "x"),
         Uri(None, None, None, "garbage")}

\* the port the url crate knows for a scheme
DefaultPort(scheme) ==
    CASE scheme = "http"  -> "80"
      [] scheme = "https" -> "443"
      [] OTHER            -> None

\* Url::parse, host_str and port: a text without a scheme is rejected, and
\* port() is None when the port is absent or is the default of the scheme
UrlParse(node) ==
    IF node.scheme = None
    THEN [ok |-> FALSE, host |-> None, port |-> None]
    ELSE [ok |-> TRUE, host |-> node.host,
          port |-> IF node.port = DefaultPort(node.scheme) THEN None ELSE node.port]

\* mutant of register_node: the new key takes the place of the peer set
register_node_replaces(self, node) ==
    LET parsed_url == UrlParse(node)
    IN  IF ~parsed_url.ok
        THEN [self |-> self, inserted |-> FALSE, panicked |-> TRUE]
        ELSE IF parsed_url.host # None
        THEN LET key == IF parsed_url.port # None
                        THEN <<parsed_url.host, ":", parsed_url.port>>
                        ELSE <<parsed_url.host>>
             IN  [self |-> [self EXCEPT !.nodes = {key}],
                  inserted |-> key \notin self.nodes, panicked |-> FALSE]
        ELSE [self |-> self, inserted |-> FALSE, panicked |-> FALSE]

\* Blockchain::register_node: the ledger after the call, the value returned, and
\* whether Url::parse(node).unwrap() panicked
register_node(self, node) ==
    LET parsed_url == UrlParse(node)
    IN  IF ~parsed_url.ok
        THEN [self |-> self, inserted |-> FALSE, panicked |-> TRUE]
        ELSE IF parsed_url.host # None
        THEN LET key == IF parsed_url.port # None
                        THEN <<parsed_url.host, ":", parsed_url.port>>
                        ELSE <<parsed_url.host>>
             IN  [self |-> [self EXCEPT !.nodes = self.nodes \cup {key}],
                  inserted |-> key \notin self.nodes, panicked |-> FALSE]
        ELSE [self |-> self, inserted |-> FALSE, panicked |-> FALSE]

RECURSIVE RegisterAll(_, _)
\* the loop of the register_nodes handler: one lock and one register_node per node
RegisterAll(self, ns) ==
    IF ns = <<>> THEN [self |-> self, panicked |-> FALSE]
    ELSE LET r == register_node(self, Head(ns))
         IN  IF r.panicked THEN [self |-> r.self, panicked |-> TRUE]
             ELSE RegisterAll(r.self, Tail(ns))

\* Blockchain::full_chain
full_chain(self) == [chain |-> self.chain, length |-> Len(self.chain)]

\* the orders in which a HashSet may yield its elements
Perms(S) ==
    {s \in [1..Cardinality(S) -> S] : \A i, j \in 1..Cardinality(S) : i # j => s[i] # s[j]}

\* Blockchain::node_list: the answers it may give, one per iteration order
node_list(self) == {[nodes |-> node_list] : node_list \in Perms(self.nodes)}

\* ---- what peers may answer on GET /chain ----

PeerProofs == 0..(HashSpace - 1)

\* the blocks a peer may serve at position i (1-based): a first block made like a
\* genesis block but numbered 1 or 2, a later block numbered i with
\* any proof and any previous_hash
PeerBlocks(i) ==
    IF i = 1
    THEN {Block(n, MaxTime, <<>>, 1, Sha256(<<1>>)) : n \in 1..2}
    ELSE {Block(i, MaxTime, <<>>, p, h) : p \in PeerProofs, h \in Digests}

RECURSIVE PeerChainsOf(_)
\* chains of n blocks that are intact up to their last block, which is arbitrary
PeerChainsOf(n) ==
    IF n = 0 THEN {<<>>}
    ELSE {Append(c, b) : c \in {d \in PeerChainsOf(n - 1) : Linked(d)}, b \in PeerBlocks(n)}

PeerChains == UNION {PeerChainsOf(n) : n \in 0..MaxPeerLen}

\* FullChain as deserialized from a peer's answer: length is what the peer
\* reports, the true length or MaxReported
Responses ==
    UNION {{[chain |-> c, length |-> n] : n \in {Len(c), MaxReported}} : c \in PeerChains}

\* ---- the node: one Blockchain behind one Mutex ----

\* the Blockchain value the Mutex guards
Self == [current_transactions |-> current_transactions, chain |-> chain, nodes |-> nodes]

RECURSIVE SeqsUpTo(_, _)
SeqsUpTo(S, n) ==
    IF n = 0 THEN {<<>>}
    ELSE LET shorter == SeqsUpTo(S, n - 1)
         IN  shorter \cup {Append(q, x) : q \in {r \in shorter : Len(r) = n - 1}, x \in S}

\* main: the ledger is constructed once, before the server starts
InitLedger ==
    /\ \E now \in 1..MaxTime :
          LET blockchain == new(now)
          IN  /\ chain = blockchain.chain
              /\ current_transactions = blockchain.current_transactions
              /\ nodes = blockchain.nodes
    /\ poisoned = FALSE
    /\ resolving = FALSE
    /\ todo = <<>>
    /\ submitted = <<>>
    /\ mines = 0
    /\ len_before = 0
    /\ obs = NoObs
    /\ promised = {}
    /\ best = 0
    /\ entry = <<>>
    /\ malformed = FALSE
    /\ verdict = None

Init ==
    /\ InitLedger
    /\ candidate = <<>>

\* blockchain.lock().unwrap() on a poisoned Mutex: the handler panics before it
\* reads or writes the ledger
LockPanics ==
    /\ poisoned
    /\ len_before' = 0
    /\ obs' = NoObs
    /\ best' = 0
    /\ entry' = <<>>
    /\ malformed' = FALSE
    /\ UNCHANGED <<chain, current_transactions, nodes, poisoned, resolving, todo,
                   submitted, mines, promised, candidate, verdict>>

\* mutant of Mine: the handler does not wait for the lock
Mine_without_lock ==
    /\ Len(chain) < MaxChain
    /\ \/ LockPanics
       \/ /\ ~poisoned
          /\ len_before' = 0
          /\ obs' = NoObs
          /\ best' = 0
          /\ entry' = <<>>
          /\ malformed' = FALSE
          /\ IF chain # <<>>
             THEN \E now \in 1..MaxTime :
                     LET last_block == Last(chain)
                         proof == proof_of_work(last_block)
                         previous_hash == hash(last_block)
                         local_blockchain == new_block(Self, proof, previous_hash, now)
                     IN  /\ chain' = local_blockchain.chain
                         /\ current_transactions' = local_blockchain.current_transactions
                         /\ submitted' = <<>>
                         /\ mines' = mines + 1
                         /\ promised' = {}
             ELSE UNCHANGED <<chain, current_transactions, submitted, mines, promised>>
          /\ UNCHANGED <<nodes, poisoned, resolving, todo, candidate, verdict>>

\* GET /mine
Mine ==
    /\ ~resolving
    /\ Len(chain) < MaxChain
    /\ \/ LockPanics
       \/ /\ ~poisoned
          /\ len_before' = 0
          /\ obs' = NoObs
          /\ best' = 0
          /\ entry' = <<>>
          /\ malformed' = FALSE
          /\ IF chain # <<>>
             THEN \E now \in 1..MaxTime :
                     LET last_block == Last(chain)
                         proof == proof_of_work(last_block)
                         previous_hash == hash(last_block)
                         local_blockchain == new_block(Self, proof, previous_hash, now)
                     IN  /\ chain' = local_blockchain.chain
                         /\ current_transactions' = local_blockchain.current_transactions
                         /\ submitted' = <<>>
                         /\ mines' = mines + 1
                         /\ promised' = {}
             ELSE UNCHANGED <<chain, current_transactions, submitted, mines, promised>>
          /\ UNCHANGED <<nodes, poisoned, resolving, todo, candidate, verdict>>

\* POST /transactions/new
NewTransaction ==
    /\ ~resolving
    /\ Len(current_transactions) < MaxPool
    /\ \/ LockPanics
       \/ /\ ~poisoned
          /\ \E req \in Txs :
                LET r == new_transaction(Self, req)
                IN  /\ current_transactions' = r.self.current_transactions
                    /\ chain' = r.self.chain
                    /\ submitted' = Append(submitted, req)
                    /\ promised' = promised \cup {r.index}
          /\ len_before' = 0
          /\ obs' = NoObs
          /\ best' = 0
          /\ entry' = <<>>
          /\ malformed' = FALSE
          /\ UNCHANGED <<nodes, poisoned, resolving, todo, mines, candidate, verdict>>

\* GET /chain: full_chain(Self) is answered, nothing is written
FullChain ==
    /\ ~resolving
    /\ \/ LockPanics
       \/ /\ ~poisoned
          /\ len_before' = 0
          /\ obs' = NoObs
          /\ best' = 0
          /\ entry' = <<>>
          /\ malformed' = FALSE
          /\ UNCHANGED <<chain, current_transactions, nodes, poisoned, resolving, todo,
                         submitted, mines, promised, candidate, verdict>>

\* GET /nodes: one of node_list(Self) is answered, nothing is written
Nodes ==
    /\ ~resolving
    /\ \/ LockPanics
       \/ /\ ~poisoned
          /\ len_before' = 0
          /\ obs' = NoObs
          /\ best' = 0
          /\ entry' = <<>>
          /\ malformed' = FALSE
          /\ UNCHANGED <<chain, current_transactions, nodes, poisoned, resolving, todo,
                         submitted, mines, promised, candidate, verdict>>

\* POST /nodes/register
RegisterNodes ==
    /\ ~resolving
    /\ \/ LockPanics
       \/ /\ ~poisoned
          /\ \E req \in SeqsUpTo(Uris, MaxReq) :
                LET r == RegisterAll(Self, req)
                IN  /\ nodes' = r.self.nodes
                    /\ poisoned' = r.panicked
                    /\ malformed' = (\E i \in 1..Len(req) : ~UrlParse(req[i]).ok)
          /\ len_before' = 0
          /\ obs' = NoObs
          /\ best' = 0
          /\ entry' = <<>>
          /\ UNCHANGED <<chain, current_transactions, resolving, todo,
                         submitted, mines, promised, candidate, verdict>>

\* GET /nodes/resolve: the lock is taken and resolve_conflicts starts to iterate
\* over self.nodes in the order the HashSet yields them; with no node to visit
\* it returns at once
Begin ==
    /\ ~poisoned
    /\ resolving' = (nodes # {})
    /\ todo' \in Perms(nodes)
    /\ len_before' = Len(chain)
    /\ obs' = NoObs
    /\ best' = 0
    /\ malformed' = FALSE
    /\ UNCHANGED <<chain, current_transactions, nodes, poisoned,
                   submitted, mines, promised, candidate, verdict>>

ConsensusBegin ==
    /\ ~resolving
    /\ \/ LockPanics
       \/ Begin /\ entry' = <<>>

\* reqwest::get(..).unwrap().json().unwrap() panics: the pass ends with the lock
\* held, which poisons the Mutex
FetchPanics ==
    /\ poisoned' = TRUE
    /\ resolving' = FALSE
    /\ todo' = <<>>
    /\ UNCHANGED <<chain, mines, obs, best, entry>>

\* mutant of Fetch: the answer is not validated
Fetch_unchecked(res) ==
    /\ chain' = IF res.length > Len(chain) THEN res.chain ELSE chain
    /\ mines' = IF chain' = chain THEN mines ELSE 0
    /\ obs' = IF Tail(todo) = <<>>
              THEN [fetched |-> TRUE,
                    len |-> Len(res.chain),
                    claimed |-> res.length > Len(chain),
                    linked |-> Linked(res.chain),
                    equal |-> chain' = res.chain]
              ELSE NoObs
    /\ todo' = Tail(todo)
    /\ resolving' = (Tail(todo) # <<>>)
    /\ UNCHANGED poisoned

\* the body of the loop of resolve_conflicts for the answer res; after the last
\* node resolve_conflicts returns and the lock is released
Fetch(res) ==
    /\ chain' = IF res.length > Len(chain) /\ valid_chain(res.chain)
                THEN res.chain ELSE chain
    /\ mines' = IF chain' = chain THEN mines ELSE 0
    /\ obs' = IF Tail(todo) = <<>>
              THEN [fetched |-> TRUE,
                    len |-> Len(res.chain),
                    claimed |-> res.length > Len(chain),
                    linked |-> Linked(res.chain),
                    equal |-> chain' = res.chain]
              ELSE NoObs
    /\ todo' = Tail(todo)
    /\ resolving' = (Tail(todo) # <<>>)
    /\ UNCHANGED poisoned

\* one iteration of the loop of resolve_conflicts: the fetch fails and unwrap
\* panics with the lock held, or the answer is compared with the local chain
ConsensusFetch ==
    /\ resolving
    /\ todo # <<>>
    /\ \/ FetchPanics
       \/ \E res \in Responses : Fetch(res) /\ UNCHANGED <<best, entry>>
    /\ UNCHANGED <<current_transactions, nodes, submitted, len_before, promised,
                   malformed, candidate, verdict>>

Next ==
    \/ Mine
    \/ NewTransaction
    \/ FullChain
    \/ Nodes
    \/ RegisterNodes
    \/ ConsensusBegin
    \/ ConsensusFetch

Spec == Init /\ [][Next]_vars

\* ---- the ledger without peers' chains: no consensus request is issued ----

NextMine ==
    \/ Mine
    \/ NewTransaction
    \/ FullChain
    \/ Nodes
    \/ RegisterNodes

SpecMine == Init /\ [][NextMine]_vars

\* ---- the resolution pass with its entry chain and fetched chains recorded ----

ObservedBegin ==
    /\ ~resolving
    /\ \/ LockPanics
       \/ Begin /\ entry' = IF nodes # {} THEN chain ELSE <<>>

ObservedFetch ==
    /\ resolving
    /\ todo # <<>>
    /\ \/ FetchPanics
       \/ \E res \in Responses :
             /\ Fetch(res)
             /\ best' = IF valid_chain(res.chain) /\ Len(res.chain) > best
                        THEN Len(res.chain) ELSE best
             /\ entry' = IF Tail(todo) = <<>> THEN <<>> ELSE entry
    /\ UNCHANGED <<current_transactions, nodes, submitted, len_before, promised,
                   malformed, candidate, verdict>>

NextResolve ==
    \/ Mine
    \/ RegisterNodes
    \/ ObservedBegin
    \/ ObservedFetch

SpecResolve == Init /\ [][NextResolve]_vars

\* ---- the validator on its own: valid_chain applied to a detached chain ----

RECURSIVE ChainsOf(_)
\* every chain of n blocks a peer may serve, intact or not
ChainsOf(n) ==
    IF n = 0 THEN {<<>>}
    ELSE {Append(c, b) : c \in ChainsOf(n - 1), b \in PeerBlocks(n)}

Candidates == UNION {ChainsOf(n) : n \in 0..MaxPeerLen}

InitVC ==
    /\ InitLedger
    /\ candidate \in Candidates

Validate ==
    /\ verdict = None
    /\ verdict' = IF valid_chain(candidate) THEN "true" ELSE "false"
    /\ UNCHANGED <<chain, current_transactions, nodes, poisoned, resolving, todo,
                   submitted, mines, len_before, obs, promised, best, entry,
                   malformed, candidate>>

SpecVC == InitVC /\ [][Validate]_vars

\* ---- the claims ----

\* a resolve_conflicts pass has run to its end and returned
Resolved == len_before > 0 /\ ~resolving /\ ~poisoned

\* C1: valid_chain returns true for every non-empty chain in which each block
\* after the first names the hash of its predecessor and proves against it.
C1_AcceptsLinked ==
    (verdict # None /\ candidate # <<>> /\ Linked(candidate)) => verdict = "true"

\* C2: valid_chain returns false for every chain in which some block after the
\* first does not name the hash of its predecessor or does not prove against it.
C2_RejectsTampered ==
    (verdict # None /\ ~Linked(candidate)) => verdict = "false"

\* C3: after a resolve_conflicts pass the local chain has at least as many
\* blocks as when the pass was entered.
C3_NeverShortens ==
    Resolved => Len(chain) >= len_before

\* C4: when the only registered peer serves a chain that is longer than the
\* local chain and intact, the local chain is that chain after the pass.
C4_AdoptsLongerLinked ==
    (Resolved /\ Cardinality(nodes) = 1 /\ obs.fetched /\ obs.linked /\ obs.len > len_before)
        => (obs.equal /\ Len(chain) = obs.len)

\* C5: in every reachable state each block of the local chain after the first
\* names the hash of its predecessor and proves against it.
C5_ChainLinked == Linked(chain)

\* C6: in every reachable state the block at position i (0-based) of the local
\* chain has index i + 1.
C6_IndexIsPosition == \A i \in 1..Len(chain) : chain[i].index = i

\* C7: a mine appends one block that holds exactly the transactions submitted
\* since the last append, in submission order, and names the hash of the block
\* that was last; the pool is empty after it, and in no state does the pool
\* differ from what was submitted since the last append.
C7_MineMovesPool ==
    /\ [](current_transactions = submitted)
    /\ [][mines' = mines + 1 =>
            /\ Len(chain') = Len(chain) + 1
            /\ Last(chain').transactions = submitted
            /\ Last(chain').previous_hash = hash(Last(chain))
            /\ current_transactions' = <<>>]_vars

\* C7 witness: the last block was mined from a pool of two different
\* transactions and the pool is empty.
C7_Witness ==
    /\ mines > 0
    /\ Len(Last(chain).transactions) = 2
    /\ Last(chain).transactions[1] # Last(chain).transactions[2]
    /\ current_transactions = <<>>

\* C8: with no chain replacement, after k mines the chain has k + 1 blocks,
\* every mine adds exactly one block after the blocks that were there, and no
\* other request changes the chain.
C8_MineExtendsByOne ==
    /\ [](Len(chain) = mines + 1)
    /\ [][/\ mines' \in {mines, mines + 1}
          /\ Len(chain') = Len(chain) + (mines' - mines)
          /\ SubSeq(chain', 1, Len(chain)) = chain]_vars

\* C8 witness: two mines have run and the chain has three blocks.
C8_Witness == mines >= 2 /\ Len(chain) = mines + 1

\* C9: in every reachable state the first block of the local chain has index 1,
\* proof 1 and previous_hash hex(sha256("1")).
C9_GenesisCanonical ==
    chain # <<>> =>
        /\ chain[1].index = 1
        /\ chain[1].proof = 1
        /\ chain[1].previous_hash = Sha256(<<1>>)

\* C10: in every reachable state the local chain has at least one block.
C10_ChainNeverEmpty == chain # <<>>

\* C10 witness: a pass has ended on a peer that served an empty chain and
\* reported a length above the local one, and the local chain still has blocks.
C10_Witness ==
    /\ Resolved
    /\ obs.fetched
    /\ obs.len = 0
    /\ obs.claimed
    /\ chain # <<>>

\* C11: new_transaction returns 1 + the index of the block that is last when it
\* is called, and the block in which mine next includes the transaction has the
\* index that was returned.
C11_ReturnedIndexIsBlockIndex ==
    /\ [][\A i \in promised' \ promised : i = Last(chain).index + 1]_vars
    /\ [][mines' = mines + 1 => \A i \in promised : Last(chain').index = i]_vars

\* C12: a register request that names a URI that cannot be parsed leaves the
\* peer set, the chain and the pool as they were and leaves the Mutex usable,
\* so that every later request completes normally.
C12_MalformedUriRecoverable ==
    [][malformed' => /\ ~poisoned'
                     /\ nodes' = nodes
                     /\ chain' = chain
                     /\ current_transactions' = current_transactions]_vars

\* C13: whenever no request is being served the Mutex is free and usable, also
\* after a request that ended through an error (a peer that cannot be fetched
\* or decoded, a URI that cannot be parsed), so that the next request takes
\* the lock and runs.
C13_LockUsableAfterEveryExit == ~resolving => ~poisoned

\* the address a URI names: its host and, when it spells one out, its port;
\* scheme and path are discarded
Authority(node) ==
    IF node.port # None THEN <<node.host, ":", node.port>> ELSE <<node.host>>

\* C14: for any two URIs that name the same host[:port], registering the
\* second after the first returns false and leaves the peer set, the chain and
\* the pool as the first registration left them.
C14_DuplicateIsNoOp ==
    \A u, v \in Uris :
        (UrlParse(u).ok /\ UrlParse(v).ok /\ u.host # None /\ Authority(u) = Authority(v))
            => LET first == register_node(Self, u).self
                   second == register_node(first, v)
               IN  ~second.inserted /\ second.self = first

\* C15: no step removes a peer, and a step that changes the peer set is a
\* register request, which changes neither the chain nor the pool.
C15_PeersOnlyGrow ==
    [][/\ nodes \subseteq nodes'
       /\ nodes' # nodes =>
            /\ ~resolving /\ ~poisoned
            /\ \E req \in SeqsUpTo(Uris, MaxReq) : nodes' = RegisterAll(Self, req).self.nodes
            /\ chain' = chain
            /\ current_transactions' = current_transactions]_vars

\* C15 witness: two peers are registered and a pass over both has run to its end.
C15_Witness == Cardinality(nodes) = 2 /\ Resolved /\ obs.fetched

\* C16: after a pass in which every peer was fetched, no fetched chain that
\* passed valid_chain has more blocks than the local chain, in whatever order
\* the peers were visited.
C16_LongestValidWins == Resolved => best <= Len(chain)

\* C17: while a resolve_conflicts pass holds the lock no other request reads
\* or changes the ledger, and the block a mine appends names the hash of the
\* block immediately before it in the chain and carries a proof valid against
\* that block.
C17_MutuallyExclusive ==
    /\ [][resolving =>
            /\ len_before' = len_before
            /\ mines' \in {mines, 0}
            /\ submitted' = submitted
            /\ current_transactions' = current_transactions
            /\ nodes' = nodes]_vars
    /\ [][mines' = mines + 1 =>
            LET block == chain'[Len(chain')]
                before == chain'[Len(chain') - 1]
            IN  /\ block.previous_hash = hash(before)
                /\ valid_proof(before.proof, block.proof, hash(before))]_vars

\* C17 witness: a pass is between two fetches on a ledger that holds a mined
\* block and pending transactions.
C17_Witness ==
    /\ resolving
    /\ Len(todo) = 1
    /\ Cardinality(nodes) = 2
    /\ mines > 0
    /\ current_transactions # <<>>

\* C18: for every last block the proof that proof_of_work returns is valid
\* against it and no smaller proof is; the block a mine appends carries that
\* proof, and the search changes neither the blocks that were there nor the
\* peer set.
C18_ProofMinimal ==
    /\ [](chain # <<>> =>
            LET last_block == Last(chain)
                p == proof_of_work(last_block)
                h == hash(last_block)
            IN  /\ valid_proof(last_block.proof, p, h)
                /\ \A q \in 0..p : q < p => ~valid_proof(last_block.proof, q, h))
    /\ [][mines' = mines + 1 =>
            /\ Last(chain').proof = proof_of_work(Last(chain))
            /\ SubSeq(chain', 1, Len(chain)) = chain
            /\ nodes' = nodes]_vars

\* C18 witness: the last block was mined after a search that rejected 0 and 1.
C18_Witness == mines > 0 /\ Last(chain).proof = 2

C20_FailedPassNoEffect == (poisoned /\ entry # <<>>) => chain = entry

====
